---- MODULE Spec2Model ----
(***************************************************************************)
(* AutoSentinel: the role-gated data-visibility and report-access model.   *)
(* The persistent store (users, vehicles, telemetry traces, vehicle        *)
(* reports, report purchases) is the state; every view handler and admin   *)
(* action is an action.  The store runs in autocommit mode (settings.py    *)
(* sets no ATOMIC_REQUESTS and the views open no transaction), so a        *)
(* handler that issues several writes is modelled as one step per          *)
(* statement, with the request's position and its in-memory copy of the    *)
(* row kept per in-flight request.                                          *)
(***************************************************************************)
EXTENDS Naturals, Integers, Sequences, FiniteSets, TLC

VARIABLES users, consent, traces, reports, purchases, pc, loc, resp, audit, searches, crowd

vars == <<users, consent, traces, reports, purchases, pc, loc, resp, audit, searches, crowd>>

----------------------------------------------------------------------------
(* Bounds of the model *)

MaxReports == 1

MaxSeedReports == 1

MaxTraces == 1

MaxAudit == 1

MaxSearches == 1

MaxCrowd == 1

(* Program constants *)

TRACE_PAGE == 100

RECENT_ACTIVITY == 20

AUDIT_PAGE == 50

----------------------------------------------------------------------------
(* Roles and the static role -> capability table *)

Roles == {"guest", "verified_buyer", "dealer", "fleet_admin", "auditor", "system_admin"}

UnknownRole == "superuser"

RoleInputs == Roles \cup {UnknownRole}

ROLE_PERMISSIONS ==
    [r \in Roles |->
        CASE r = "guest"          -> {"view_basic_report"}
          [] r = "verified_buyer" -> {"view_basic_report", "view_full_report", "purchase_report"}
          [] r = "dealer"         -> {"view_basic_report", "view_full_report", "purchase_report", "bulk_search"}
          [] r = "fleet_admin"    -> {"view_basic_report", "view_full_report", "view_telemetry", "manage_fleet"}
          [] r = "auditor"        -> {"view_all_reports", "view_audit_logs"}
          [] r = "system_admin"   -> {"full_access"}]

(* The role-permission gate of spec 4.1: the table entry of a known role,
   no capability for any other role value. *)
RolePermissions_DefaultGuest(role) ==
    IF role \in DOMAIN ROLE_PERMISSIONS THEN ROLE_PERMISSIONS[role] ELSE ROLE_PERMISSIONS["guest"]

RolePermissions(role) ==
    IF role \in DOMAIN ROLE_PERMISSIONS THEN ROLE_PERMISSIONS[role] ELSE {}

HasCapability(role, cap) ==
    cap \in RolePermissions(role) \/ "full_access" \in RolePermissions(role)

----------------------------------------------------------------------------
(* Identities *)

Anonymous == "AnonymousUser"

NoUser == "None"

Usernames == {"guest1", "buyer1", "newuser"}

SeedUsers == [u \in {"guest1", "buyer1"} |-> IF u = "guest1" THEN "guest" ELSE "verified_buyer"]

VinTracked == "1HGCM82633A004351"

VinUntracked == "1HGCM82633A004352"

VinUnknown == "ZZZZZZZZZZZZZZZZZ"

Vins == {VinTracked, VinUntracked}

VinInputs == Vins \cup {VinUnknown}

Methods == {"GET", "POST"}

(* Two requests in flight at a time: the purchase race of spec section 5. *)
Requests == {"first", "second"}

Requesters == DOMAIN users \cup {Anonymous}

is_authenticated(u) == u # Anonymous

RoleOf(u) == IF u \in DOMAIN users THEN users[u] ELSE "anonymous"

is_admin_AnyAuthenticated(u) == is_authenticated(u)

is_admin(u) == is_authenticated(u) /\ RoleOf(u) \in {"system_admin", "auditor"}

Min(a, b) == IF a <= b THEN a ELSE b

----------------------------------------------------------------------------
(* Rows *)

NullReport ==
    [vehicle |-> "None", requested_by |-> NoUser, status |-> "pending",
     is_paid |-> FALSE, include_telemetry |-> FALSE, json_data |-> FALSE,
     generation_started_at |-> FALSE, generation_completed_at |-> FALSE]

NewReport(vin, user, status, paid, tel) ==
    [vehicle |-> vin, requested_by |-> user, status |-> status,
     is_paid |-> paid, include_telemetry |-> tel, json_data |-> FALSE,
     generation_started_at |-> FALSE, generation_completed_at |-> FALSE]

NewPurchase(rid, user) ==
    [report |-> rid, user |-> user, payment_status |-> "completed"]

ReportIds == 1..Len(reports)

PurchasesOf(rid) == {i \in 1..Len(purchases) : purchases[i].report = rid}

IdleLoc == [rid |-> 0, user |-> NoUser, report |-> NullReport, role |-> "none"]

(* The last response sent to a caller: the handler, the requester, its role
   ("anonymous" when not logged in), the method, the VIN asked for and that
   vehicle's consent flag at the time of the request, the HTTP status, the
   outcome and the number of telemetry rows in the body; for the detail
   pages also the number of OwnershipRecord rows in the body, whether the
   whole VehicleReport row (JSON snapshot included) is in the body, and that
   report's is_paid flag at the time of the request; for the search page the
   query text and the search type it echoes; for the report page the id of
   the report asked for; for a JSON answer the keys of its body. *)
Response(op, u, method, vin, code, outcome, count) ==
    [op |-> op, user |-> u, role |-> RoleOf(u), method |-> method, vin |-> vin,
     consent |-> IF vin \in Vins THEN consent[vin] ELSE FALSE,
     code |-> code, outcome |-> outcome, count |-> count,
     ownership |-> 0, full_data |-> FALSE, is_paid |-> FALSE,
     query |-> <<>>, search_type |-> "none", rid |-> 0, fields |-> {}]

NoResponse ==
    [op |-> "none", user |-> Anonymous, role |-> "anonymous", method |-> "GET", vin |-> "None",
     consent |-> FALSE, code |-> 0, outcome |-> "none", count |-> 0,
     ownership |-> 0, full_data |-> FALSE, is_paid |-> FALSE,
     query |-> <<>>, search_type |-> "none", rid |-> 0, fields |-> {}]

LoginRedirect(op, u, method, vin) ==
    Response(op, u, method, vin, 302, "login_redirect", 0)

NotFound(op, u, method, vin) ==
    Response(op, u, method, vin, 404, "not_found", 0)

----------------------------------------------------------------------------
(* Telemetry / consent gate *)

vehicle_tracking_NoConsentCheck(u, vin) ==
    /\ u \in Requesters
    /\ resp' = IF ~is_authenticated(u) THEN LoginRedirect("vehicle_tracking", u, "GET", vin)
               ELSE IF vin \notin Vins THEN NotFound("vehicle_tracking", u, "GET", vin)
               ELSE Response("vehicle_tracking", u, "GET", vin, 200, "telemetry", Min(traces[vin], TRACE_PAGE))
    /\ UNCHANGED <<users, consent, traces, reports, purchases, pc, loc, audit, searches, crowd>>

vehicle_tracking(u, vin) ==
    /\ u \in Requesters
    /\ resp' = IF ~is_authenticated(u) THEN LoginRedirect("vehicle_tracking", u, "GET", vin)
               ELSE IF vin \notin Vins THEN NotFound("vehicle_tracking", u, "GET", vin)
               ELSE IF ~consent[vin]
                    THEN Response("vehicle_tracking", u, "GET", vin, 302, "tracking_not_enabled_redirect", 0)
               ELSE Response("vehicle_tracking", u, "GET", vin, 200, "telemetry", Min(traces[vin], TRACE_PAGE))
    /\ UNCHANGED <<users, consent, traces, reports, purchases, pc, loc, audit, searches, crowd>>

api_telemetry_data_EmptyList(u, vin) ==
    /\ u \in Requesters
    /\ resp' = IF ~is_authenticated(u) THEN LoginRedirect("api_telemetry_data", u, "GET", vin)
               ELSE IF vin \notin Vins THEN NotFound("api_telemetry_data", u, "GET", vin)
               ELSE IF ~consent[vin]
                    THEN Response("api_telemetry_data", u, "GET", vin, 200, "telemetry", 0)
               ELSE Response("api_telemetry_data", u, "GET", vin, 200, "telemetry", Min(traces[vin], TRACE_PAGE))
    /\ UNCHANGED <<users, consent, traces, reports, purchases, pc, loc, audit, searches, crowd>>

api_telemetry_data(u, vin) ==
    /\ u \in Requesters
    /\ resp' = IF ~is_authenticated(u) THEN LoginRedirect("api_telemetry_data", u, "GET", vin)
               ELSE IF vin \notin Vins THEN NotFound("api_telemetry_data", u, "GET", vin)
               ELSE IF ~consent[vin]
                    THEN Response("api_telemetry_data", u, "GET", vin, 403, "Tracking not enabled", 0)
               ELSE Response("api_telemetry_data", u, "GET", vin, 200, "telemetry", Min(traces[vin], TRACE_PAGE))
    /\ UNCHANGED <<users, consent, traces, reports, purchases, pc, loc, audit, searches, crowd>>

enable_tracking(queryset) ==
    /\ consent' = [v \in Vins |-> IF v \in queryset THEN TRUE ELSE consent[v]]
    /\ UNCHANGED <<users, traces, reports, purchases, pc, loc, resp, audit, searches, crowd>>

disable_tracking_DropsTraces(queryset) ==
    /\ consent' = [v \in Vins |-> IF v \in queryset THEN FALSE ELSE consent[v]]
    /\ traces' = [v \in Vins |-> IF v \in queryset THEN 0 ELSE traces[v]]
    /\ UNCHANGED <<users, reports, purchases, pc, loc, resp, audit, searches, crowd>>

disable_tracking(queryset) ==
    /\ consent' = [v \in Vins |-> IF v \in queryset THEN FALSE ELSE consent[v]]
    /\ UNCHANGED <<users, traces, reports, purchases, pc, loc, resp, audit, searches, crowd>>

(* register_view as one step: a registration that no other registration
   overlaps. *)
register_view(username, role, method) ==
    /\ IF method # "POST"
       THEN /\ resp' = Response("register_view", Anonymous, method, "None", 200, "register_page", 0)
            /\ UNCHANGED users
       ELSE IF username \in DOMAIN users
       THEN /\ resp' = Response("register_view", Anonymous, method, "None", 302, "username_exists", 0)
            /\ UNCHANGED users
       ELSE /\ users' = [n \in DOMAIN users \cup {username} |-> IF n = username THEN role ELSE users[n]]
            /\ resp' = Response("register_view", Anonymous, method, "None", 302, "registered", 0)
    /\ UNCHANGED <<consent, traces, reports, purchases, pc, loc, audit, searches, crowd>>

(* register_view under concurrent requests.  The existence check and
   create_user are two statements, each committed on its own; the request
   keeps the posted username and role in between. *)
register_view_check(q, username, role, method) ==
    /\ pc[q] = "idle"
    /\ IF method # "POST"
       THEN /\ resp' = Response("register_view", Anonymous, method, "None", 200, "register_page", 0)
            /\ UNCHANGED <<pc, loc>>
       ELSE IF username \in DOMAIN users
       THEN /\ resp' = Response("register_view", Anonymous, method, "None", 302, "username_exists", 0)
            /\ UNCHANGED <<pc, loc>>
       ELSE /\ pc' = [pc EXCEPT ![q] = "create_user"]
            /\ loc' = [loc EXCEPT ![q] = [IdleLoc EXCEPT !.user = username, !.role = role]]
            /\ UNCHANGED resp
    /\ UNCHANGED <<users, consent, traces, reports, purchases, audit, searches, crowd>>

(* User.objects.create_user: User.username is unique; a second insert of the
   same username raises IntegrityError, which the view does not catch. *)
register_view_create(q) ==
    /\ pc[q] = "create_user"
    /\ IF loc[q].user \notin DOMAIN users
       THEN /\ users' = [n \in DOMAIN users \cup {loc[q].user} |->
                           IF n = loc[q].user THEN loc[q].role ELSE users[n]]
            /\ resp' = Response("register_view", Anonymous, "POST", "None", 302, "registered", 0)
       ELSE /\ resp' = Response("register_view", Anonymous, "POST", "None", 500, "IntegrityError", 0)
            /\ UNCHANGED users
    /\ pc' = [pc EXCEPT ![q] = "idle"]
    /\ loc' = [loc EXCEPT ![q] = IdleLoc]
    /\ UNCHANGED <<consent, traces, reports, purchases, audit, searches, crowd>>

----------------------------------------------------------------------------
(* Report pipeline *)

generate_report_StartsPending(u, vin, method, include_telemetry) ==
    /\ u \in Requesters
    /\ IF ~is_authenticated(u)
       THEN /\ resp' = LoginRedirect("generate_report", u, method, vin)
            /\ UNCHANGED reports
       ELSE IF vin \notin Vins
       THEN /\ resp' = NotFound("generate_report", u, method, vin)
            /\ UNCHANGED reports
       ELSE IF method # "POST"
       THEN /\ resp' = Response("generate_report", u, method, vin, 200, "generate_page", 0)
            /\ UNCHANGED reports
       ELSE /\ Len(reports) < MaxReports
            /\ reports' = Append(reports, NewReport(vin, u, "pending", FALSE, include_telemetry /\ consent[vin]))
            /\ resp' = Response("generate_report", u, method, vin, 302, "report_started", 0)
    /\ UNCHANGED <<users, consent, traces, purchases, pc, loc, audit, searches, crowd>>

generate_report_TelemetryUnchecked(u, vin, method, include_telemetry) ==
    /\ u \in Requesters
    /\ IF ~is_authenticated(u)
       THEN /\ resp' = LoginRedirect("generate_report", u, method, vin)
            /\ UNCHANGED reports
       ELSE IF vin \notin Vins
       THEN /\ resp' = NotFound("generate_report", u, method, vin)
            /\ UNCHANGED reports
       ELSE IF method # "POST"
       THEN /\ resp' = Response("generate_report", u, method, vin, 200, "generate_page", 0)
            /\ UNCHANGED reports
       ELSE /\ Len(reports) < MaxReports
            /\ reports' = Append(reports, NewReport(vin, u, "processing", FALSE, include_telemetry))
            /\ resp' = Response("generate_report", u, method, vin, 302, "report_started", 0)
    /\ UNCHANGED <<users, consent, traces, purchases, pc, loc, audit, searches, crowd>>

generate_report(u, vin, method, include_telemetry) ==
    /\ u \in Requesters
    /\ IF ~is_authenticated(u)
       THEN /\ resp' = LoginRedirect("generate_report", u, method, vin)
            /\ UNCHANGED reports
       ELSE IF vin \notin Vins
       THEN /\ resp' = NotFound("generate_report", u, method, vin)
            /\ UNCHANGED reports
       ELSE IF method # "POST"
       THEN /\ resp' = Response("generate_report", u, method, vin, 200, "generate_page", 0)
            /\ UNCHANGED reports
       ELSE /\ Len(reports) < MaxReports
            /\ reports' = Append(reports,
                   NewReport(vin, u, "processing", FALSE, include_telemetry /\ consent[vin]))
            /\ resp' = Response("generate_report", u, method, vin, 302, "report_started", 0)
    /\ UNCHANGED <<users, consent, traces, purchases, pc, loc, audit, searches, crowd>>

(* purchase_report, first statements: the login check, the method check and
   the fetch of the report row into the request's memory. *)
purchase_report_fetch(q, u, rid, method) ==
    /\ pc[q] = "idle"
    /\ u \in Requesters
    /\ IF ~is_authenticated(u)
       THEN /\ resp' = LoginRedirect("purchase_report", u, method, "None")
            /\ UNCHANGED <<pc, loc>>
       ELSE IF rid \notin ReportIds
       THEN /\ resp' = NotFound("purchase_report", u, method, "None")
            /\ UNCHANGED <<pc, loc>>
       ELSE IF method # "POST"
       THEN /\ resp' = Response("purchase_report", u, method, "None", 200, "purchase_page", 0)
            /\ UNCHANGED <<pc, loc>>
       ELSE /\ pc' = [pc EXCEPT ![q] = "create"]
            /\ loc' = [loc EXCEPT ![q] = [IdleLoc EXCEPT !.rid = rid, !.user = u,
                                                    !.report = reports[rid]]]
            /\ UNCHANGED resp
    /\ UNCHANGED <<users, consent, traces, reports, purchases, audit, searches, crowd>>

(* The unique constraint of the one-to-one relation ReportPurchase.report. *)
ReportPurchase_report_unique_Dropped(rid) == TRUE

ReportPurchase_report_unique(rid) == PurchasesOf(rid) = {}

(* purchase_report, ReportPurchase.objects.create: the insert commits on its
   own; a violated unique constraint raises IntegrityError, which the view
   does not catch. *)
purchase_report_create(q) ==
    /\ pc[q] = "create"
    /\ IF ReportPurchase_report_unique(loc[q].rid)
       THEN /\ purchases' = Append(purchases, NewPurchase(loc[q].rid, loc[q].user))
            /\ pc' = [pc EXCEPT ![q] = "save"]
            /\ UNCHANGED <<loc, resp>>
       ELSE /\ resp' = Response("purchase_report", loc[q].user, "POST", "None",
                                500, "IntegrityError", 0)
            /\ pc' = [pc EXCEPT ![q] = "idle"]
            /\ loc' = [loc EXCEPT ![q] = IdleLoc]
            /\ UNCHANGED purchases
    /\ UNCHANGED <<users, consent, traces, reports, audit, searches, crowd>>

purchase_report_save_PaidFlagLost(q) ==
    /\ pc[q] = "save"
    /\ reports' = [reports EXCEPT ![loc[q].rid] = [loc[q].report EXCEPT !.status = "completed"]]
    /\ resp' = Response("purchase_report", loc[q].user, "POST", "None", 302, "purchased", 0)
    /\ pc' = [pc EXCEPT ![q] = "idle"]
    /\ loc' = [loc EXCEPT ![q] = IdleLoc]
    /\ UNCHANGED <<users, consent, traces, purchases, audit, searches, crowd>>

(* purchase_report, report.save(): writes every field of the in-memory copy. *)
purchase_report_save(q) ==
    /\ pc[q] = "save"
    /\ reports' = [reports EXCEPT ![loc[q].rid] =
                      [loc[q].report EXCEPT !.is_paid = TRUE, !.status = "completed"]]
    /\ resp' = Response("purchase_report", loc[q].user, "POST", "None", 302, "purchased", 0)
    /\ pc' = [pc EXCEPT ![q] = "idle"]
    /\ loc' = [loc EXCEPT ![q] = IdleLoc]
    /\ UNCHANGED <<users, consent, traces, purchases, audit, searches, crowd>>

----------------------------------------------------------------------------
(* Detail pages and the audit log *)

(* Seeded vehicles: Vehicle.current_owner_count, one OwnershipRecord row per
   owner. *)
current_owner_count == [v \in Vins |-> IF v = VinTracked THEN 2 ELSE 1]

ownership_records(vin) == current_owner_count[vin]

AuditRow(u, action, resource_type, vin) ==
    [user |-> IF is_authenticated(u) THEN u ELSE NoUser, action |-> action,
     resource_type |-> resource_type, vehicle |-> vin, ip_address |-> "REMOTE_ADDR"]

(* log_audit: one insert into audit_logs, with no exception handling. *)
log_audit(u, action, resource_type, vin) ==
    audit' = Append(audit, AuditRow(u, action, resource_type, vin))

(* vehicle_detail: open to anonymous callers; the audit row is written
   before the related rows are read.  audit_write_ok = FALSE is a failure of
   the insert (the store raises), which neither log_audit nor the view
   catches. *)
vehicle_detail(u, vin, audit_write_ok) ==
    /\ u \in Requesters
    /\ IF vin \notin Vins
       THEN /\ resp' = NotFound("vehicle_detail", u, "GET", vin)
            /\ UNCHANGED audit
       ELSE IF ~audit_write_ok
       THEN /\ resp' = Response("vehicle_detail", u, "GET", vin, 500, "DatabaseError", 0)
            /\ UNCHANGED audit
       ELSE /\ Len(audit) < MaxAudit
            /\ log_audit(u, "view", "Vehicle", vin)
            /\ resp' = [Response("vehicle_detail", u, "GET", vin, 200, "vehicle_page", 0)
                           EXCEPT !.ownership = ownership_records(vin)]
    /\ UNCHANGED <<users, consent, traces, reports, purchases, pc, loc, searches, crowd>>

report_detail_NoAccessCheck(u, rid) ==
    /\ u \in Requesters
    /\ resp' = IF ~is_authenticated(u)
               THEN [LoginRedirect("report_detail", u, "GET", "None") EXCEPT !.rid = rid]
               ELSE IF rid \notin ReportIds
               THEN [NotFound("report_detail", u, "GET", "None") EXCEPT !.rid = rid]
               ELSE [Response("report_detail", u, "GET", reports[rid].vehicle,
                              200, "report_page", 0)
                       EXCEPT !.rid = rid, !.full_data = TRUE,
                              !.is_paid = reports[rid].is_paid]
    /\ UNCHANGED <<users, consent, traces, reports, purchases, pc, loc, audit, searches, crowd>>

(* report_detail: the page context is the whole VehicleReport row. *)
report_detail(u, rid) ==
    /\ u \in Requesters
    /\ resp' = IF ~is_authenticated(u)
               THEN [LoginRedirect("report_detail", u, "GET", "None") EXCEPT !.rid = rid]
               ELSE IF rid \notin ReportIds
               THEN [NotFound("report_detail", u, "GET", "None") EXCEPT !.rid = rid]
               ELSE IF reports[rid].requested_by # u /\ ~is_admin(u)
               THEN [Response("report_detail", u, "GET", reports[rid].vehicle,
                              302, "no_access_redirect", 0)
                       EXCEPT !.rid = rid]
               ELSE [Response("report_detail", u, "GET", reports[rid].vehicle,
                              200, "report_page", 0)
                       EXCEPT !.rid = rid, !.full_data = TRUE,
                              !.is_paid = reports[rid].is_paid]
    /\ UNCHANGED <<users, consent, traces, reports, purchases, pc, loc, audit, searches, crowd>>

----------------------------------------------------------------------------
(* Search and VIN lookup.  Texts are sequences of characters, so that
   substring matching, case folding and the VIN pattern are computed. *)

VinLower == "1hgcm82633a004351"

VinShort == "1HG"

LookupInputs == VinInputs \cup {VinLower, VinShort}

Text(str) ==
    CASE str = VinTracked   -> <<"1","H","G","C","M","8","2","6","3","3","A","0","0","4","3","5","1">>
      [] str = VinUntracked -> <<"1","H","G","C","M","8","2","6","3","3","A","0","0","4","3","5","2">>
      [] str = VinUnknown   -> <<"Z","Z","Z","Z","Z","Z","Z","Z","Z","Z","Z","Z","Z","Z","Z","Z","Z">>
      [] str = VinLower     -> <<"1","h","g","c","m","8","2","6","3","3","a","0","0","4","3","5","1">>
      [] str = VinShort     -> <<"1","H","G">>

(* Vehicle.vin validator: ^[A-HJ-NPR-Z0-9]{17}$ *)
VinAlphabet ==
    {"A","B","C","D","E","F","G","H","J","K","L","M","N","P","R","S","T","U","V","W","X","Y","Z",
     "0","1","2","3","4","5","6","7","8","9"}

VIN_PATTERN(t) == Len(t) = 17 /\ \A i \in 1..Len(t) : t[i] \in VinAlphabet

ToUpper == [c \in {"a", "c", "g", "h", "m"} |->
               CASE c = "a" -> "A" [] c = "c" -> "C" [] c = "g" -> "G"
                 [] c = "h" -> "H" [] c = "m" -> "M"]

Upper(c) == IF c \in DOMAIN ToUpper THEN ToUpper[c] ELSE c

(* field__icontains: case-insensitive substring match. *)
icontains(text, q) ==
    \E i \in 0..(Len(text) - Len(q)) :
        \A j \in 1..Len(q) : Upper(text[i + j]) = Upper(q[j])

(* Vehicle.objects.get(vin=...): exact, case-sensitive equality. *)
vin_exact(stored, given) == Text(stored) = Text(given)

(* The seeded vehicles in table order, with make and model, and their
   registrations (the tracked vehicle has been registered twice). *)
VehicleTable == <<VinTracked, VinUntracked>>

MakeModel ==
    [v \in Vins |-> IF v = VinTracked
                    THEN [make |-> <<"H","o","n","d","a">>, model |-> <<"C","i","v","i","c">>]
                    ELSE [make |-> <<"H","o","n","d","a">>, model |-> <<"A","c","c","o","r","d">>]]

Registrations ==
    <<[vehicle |-> VinTracked, plate_number |-> <<"7","A","B","1">>],
      [vehicle |-> VinTracked, plate_number |-> <<"7","A","C","2">>],
      [vehicle |-> VinUntracked, plate_number |-> <<"8","M","H","3">>]>>

SearchTypes == {"vin", "plate", "make_model", "owner"}

SearchQueries == {<<>>, <<"h", "g">>, <<"5", "1">>, <<"7", "a">>, <<"c", "c">>}

VinMatches(q) == SelectSeq(VehicleTable, LAMBDA v : icontains(Text(v), q))

PlateMatches(q) ==
    LET regs == SelectSeq(Registrations, LAMBDA r : icontains(r.plate_number, q))
    IN  [i \in 1..Len(regs) |-> regs[i].vehicle]

MakeModelMatches(q) ==
    SelectSeq(VehicleTable,
              LAMBDA v : icontains(MakeModel[v].make, q) \/ icontains(MakeModel[v].model, q))

SearchVehicles(q, search_type) ==
    IF q = <<>> THEN <<>>
    ELSE CASE search_type = "vin"        -> VinMatches(q)
           [] search_type = "plate"      -> PlateMatches(q)
           [] search_type = "make_model" -> MakeModelMatches(q)
           [] OTHER                      -> <<>>

SearchRow_FoundFlag(u, q, search_type, vehicles) ==
    [user |-> IF is_authenticated(u) THEN u ELSE NoUser, search_type |-> search_type,
     query_text |-> q,
     vehicle_found |-> IF vehicles # <<>> THEN vehicles[1] ELSE "None",
     results_count |-> IF vehicles # <<>> THEN 1 ELSE 0, ip_address |-> "REMOTE_ADDR"]

SearchRow(u, q, search_type, vehicles) ==
    [user |-> IF is_authenticated(u) THEN u ELSE NoUser, search_type |-> search_type,
     query_text |-> q,
     vehicle_found |-> IF vehicles # <<>> THEN vehicles[1] ELSE "None",
     results_count |-> Len(vehicles), ip_address |-> "REMOTE_ADDR"]

(* search_results: open to anonymous callers; the SearchQuery row is written
   only inside "if query:".  The page shows the matches (20 per page) and
   total_results = len(vehicles), kept in count. *)
search_results(u, q, search_type) ==
    /\ u \in Requesters
    /\ LET vehicles == SearchVehicles(q, search_type)
       IN  /\ IF q # <<>>
              THEN /\ Len(searches) < MaxSearches
                   /\ searches' = Append(searches, SearchRow(u, q, search_type, vehicles))
              ELSE UNCHANGED searches
           /\ resp' = [Response("search_results", u, "GET", "None", 200, "search_page",
                                Len(vehicles))
                          EXCEPT !.query = q, !.search_type = search_type]
    /\ UNCHANGED <<users, consent, traces, reports, purchases, pc, loc, audit, crowd>>

VehicleJsonKeys == {"vin", "make", "model", "year", "title_status", "mileage", "is_stolen"}

api_vehicle_lookup_EmptyObject(u, vin) ==
    /\ u \in Requesters
    /\ resp' = IF \E v \in Vins : vin_exact(v, vin)
               THEN [Response("api_vehicle_lookup", u, "GET", vin, 200, "vehicle_json", 0)
                       EXCEPT !.fields = VehicleJsonKeys]
               ELSE Response("api_vehicle_lookup", u, "GET", vin, 200, "vehicle_json", 0)
    /\ UNCHANGED <<users, consent, traces, reports, purchases, pc, loc, audit, searches, crowd>>

(* api_vehicle_lookup: no login and no validation of the VIN; the store is
   queried with whatever string the URL carried. *)
api_vehicle_lookup(u, vin) ==
    /\ u \in Requesters
    /\ resp' = IF \E v \in Vins : vin_exact(v, vin)
               THEN [Response("api_vehicle_lookup", u, "GET", vin, 200, "vehicle_json", 0)
                       EXCEPT !.fields = VehicleJsonKeys]
               ELSE [Response("api_vehicle_lookup", u, "GET", vin, 404, "Vehicle not found", 0)
                       EXCEPT !.fields = {"error"}]
    /\ UNCHANGED <<users, consent, traces, reports, purchases, pc, loc, audit, searches, crowd>>

----------------------------------------------------------------------------
(* Admin site: deletions that reach the log tables *)

SetNullUser(rows, field, u) ==
    [i \in 1..Len(rows) |->
        IF rows[i][field] = u THEN [rows[i] EXCEPT ![field] = NoUser] ELSE rows[i]]

RemoveAt(rows, i) == SubSeq(rows, 1, i - 1) \o SubSeq(rows, i + 1, Len(rows))

(* Deleting a user through UserAdmin: every foreign key to User is
   on_delete = SET_NULL, so the rows that name the user are rewritten. *)
UserAdmin_delete(u) ==
    /\ u \in DOMAIN users
    /\ users' = [n \in DOMAIN users \ {u} |-> users[n]]
    /\ audit' = SetNullUser(audit, "user", u)
    /\ searches' = SetNullUser(searches, "user", u)
    /\ reports' = SetNullUser(reports, "requested_by", u)
    /\ purchases' = SetNullUser(purchases, "user", u)
    /\ crowd' = SetNullUser(SetNullUser(crowd, "submitted_by", u), "verified_by", u)
    /\ UNCHANGED <<consent, traces, pc, loc, resp>>

(* AuditLogAdmin: add and change are refused; delete is allowed to a
   superuser. *)
AuditLogAdmin_delete(i) ==
    /\ i \in 1..Len(audit)
    /\ audit' = RemoveAt(audit, i)
    /\ UNCHANGED <<users, consent, traces, reports, purchases, pc, loc, resp, searches, crowd>>

(* SearchQueryAdmin: add and change are refused; has_delete_permission is
   not overridden, so the default delete of the admin site applies. *)
SearchQueryAdmin_delete(i) ==
    /\ i \in 1..Len(searches)
    /\ searches' = RemoveAt(searches, i)
    /\ UNCHANGED <<users, consent, traces, reports, purchases, pc, loc, resp, audit, crowd>>

----------------------------------------------------------------------------
(* Crowdsourced reports and the admin views *)

CrowdRow(vin, u) ==
    [vehicle |-> vin, submitted_by |-> u, status |-> "pending",
     verified_by |-> NoUser, verified_at |-> FALSE]

CrowdIds == 1..Len(crowd)

submit_report_NoLoginRequired(u, vin, method, valid_form) ==
    /\ u \in Requesters
    /\ IF vin \notin Vins
       THEN /\ resp' = NotFound("submit_report", u, method, vin)
            /\ UNCHANGED crowd
       ELSE IF method # "POST"
       THEN /\ resp' = Response("submit_report", u, method, vin, 200, "submit_page", 0)
            /\ UNCHANGED crowd
       ELSE IF ~valid_form
       THEN /\ resp' = Response("submit_report", u, method, vin, 500, "IntegrityError", 0)
            /\ UNCHANGED crowd
       ELSE /\ Len(crowd) < MaxCrowd
            /\ crowd' = Append(crowd, CrowdRow(vin, IF is_authenticated(u) THEN u ELSE NoUser))
            /\ resp' = Response("submit_report", u, method, vin, 302, "report_submitted", 0)
    /\ UNCHANGED <<users, consent, traces, reports, purchases, pc, loc, audit, searches>>

(* submit_report: login required; the posted fields go into the insert as
   they come, so a missing or malformed report_date or description
   (valid_form = FALSE) makes the insert raise, uncaught. *)
submit_report(u, vin, method, valid_form) ==
    /\ u \in Requesters
    /\ IF ~is_authenticated(u)
       THEN /\ resp' = LoginRedirect("submit_report", u, method, vin)
            /\ UNCHANGED crowd
       ELSE IF vin \notin Vins
       THEN /\ resp' = NotFound("submit_report", u, method, vin)
            /\ UNCHANGED crowd
       ELSE IF method # "POST"
       THEN /\ resp' = Response("submit_report", u, method, vin, 200, "submit_page", 0)
            /\ UNCHANGED crowd
       ELSE IF ~valid_form
       THEN /\ resp' = Response("submit_report", u, method, vin, 500, "IntegrityError", 0)
            /\ UNCHANGED crowd
       ELSE /\ Len(crowd) < MaxCrowd
            /\ crowd' = Append(crowd, CrowdRow(vin, u))
            /\ resp' = Response("submit_report", u, method, vin, 302, "report_submitted", 0)
    /\ UNCHANGED <<users, consent, traces, reports, purchases, pc, loc, audit, searches>>

VerifyActions == {"verify", "reject", "none"}

(* verify_report: user_passes_test(is_admin) sends every other requester to
   the login page.  On POST the row just read is changed in memory and saved:
   "verify" sets status, verified_by and verified_at, "reject" sets the
   status only, any other action saves the row as read. *)
verify_report(u, rid, method, action) ==
    /\ u \in Requesters
    /\ IF ~is_admin(u)
       THEN /\ resp' = [LoginRedirect("verify_report", u, method, "None") EXCEPT !.rid = rid]
            /\ UNCHANGED crowd
       ELSE IF rid \notin CrowdIds
       THEN /\ resp' = [NotFound("verify_report", u, method, "None") EXCEPT !.rid = rid]
            /\ UNCHANGED crowd
       ELSE IF method # "POST"
       THEN /\ resp' = [Response("verify_report", u, method, crowd[rid].vehicle,
                                 200, "verify_page", 1) EXCEPT !.rid = rid]
            /\ UNCHANGED crowd
       ELSE /\ crowd' = [crowd EXCEPT ![rid] =
                           IF action = "verify"
                           THEN [@ EXCEPT !.status = "verified", !.verified_by = u,
                                          !.verified_at = TRUE]
                           ELSE IF action = "reject"
                           THEN [@ EXCEPT !.status = "rejected"]
                           ELSE @]
            /\ resp' = [Response("verify_report", u, method, crowd[rid].vehicle,
                                 302, "crowdsourced_reports_redirect", 0) EXCEPT !.rid = rid]
    /\ UNCHANGED <<users, consent, traces, reports, purchases, pc, loc, audit, searches>>

(* CrowdsourcedReportAdmin actions, run in the admin site by the seeded
   superuser. *)
StaffUser == "steve_admin"

verify_reports(queryset) ==
    /\ crowd' = [i \in CrowdIds |->
                   IF i \in queryset
                   THEN [crowd[i] EXCEPT !.status = "verified", !.verified_by = StaffUser,
                                         !.verified_at = TRUE]
                   ELSE crowd[i]]
    /\ UNCHANGED <<users, consent, traces, reports, purchases, pc, loc, resp, audit, searches>>

reject_reports(queryset) ==
    /\ crowd' = [i \in CrowdIds |->
                   IF i \in queryset THEN [crowd[i] EXCEPT !.status = "rejected"] ELSE crowd[i]]
    /\ UNCHANGED <<users, consent, traces, reports, purchases, pc, loc, resp, audit, searches>>

(* Seeded vehicles: Vehicle.is_stolen. *)
is_stolen == [v \in Vins |-> v = VinUntracked]

AdminPage(op, u, rows) ==
    IF ~is_admin(u) THEN LoginRedirect(op, u, "GET", "None")
    ELSE Response(op, u, "GET", "None", 200, op, rows)

admin_dashboard(u) ==
    /\ u \in Requesters
    /\ resp' = AdminPage("admin_dashboard", u, Min(Len(audit), RECENT_ACTIVITY))
    /\ UNCHANGED <<users, consent, traces, reports, purchases, pc, loc, audit, searches, crowd>>

audit_logs(u) ==
    /\ u \in Requesters
    /\ resp' = AdminPage("audit_logs", u, Min(Len(audit), AUDIT_PAGE))
    /\ UNCHANGED <<users, consent, traces, reports, purchases, pc, loc, audit, searches, crowd>>

stolen_vehicles(u) ==
    /\ u \in Requesters
    /\ resp' = AdminPage("stolen_vehicles", u, Cardinality({v \in Vins : is_stolen[v]}))
    /\ UNCHANGED <<users, consent, traces, reports, purchases, pc, loc, audit, searches, crowd>>

----------------------------------------------------------------------------
(* The store after seed_data: users, vehicles, telemetry traces for the
   consenting vehicles, and vehicle reports with the purchases of the
   completed ones. *)

SeedBuyers == {u \in DOMAIN SeedUsers : SeedUsers[u] \in {"verified_buyer", "dealer"}}

SeedReport(vin, user, status, tel, cons) ==
    [vehicle |-> vin, requested_by |-> user, status |-> status,
     is_paid |-> (status = "completed"), include_telemetry |-> (cons[vin] /\ tel),
     json_data |-> (status = "completed"),
     generation_started_at |-> (status = "completed"),
     generation_completed_at |-> (status = "completed")]

SeedReports(cons, vins) ==
    {SeedReport(vin, user, status, tel, cons) :
        vin \in vins, user \in (IF SeedBuyers = {} THEN {NoUser} ELSE SeedBuyers),
        status \in {"completed", "processing", "pending"}, tel \in BOOLEAN}

RECURSIVE SeedPurchases(_, _)
SeedPurchases(rs, n) ==
    IF n = 0 THEN <<>>
    ELSE IF rs[n].status = "completed" /\ rs[n].is_paid
         THEN Append(SeedPurchases(rs, n - 1), NewPurchase(n, rs[n].requested_by))
         ELSE SeedPurchases(rs, n - 1)

InitStore(cons, vins, maxSeed) ==
    /\ users = SeedUsers
    /\ consent = cons
    /\ traces \in {t \in [Vins -> 0..MaxTraces] : \A v \in Vins : (t[v] > 0) <=> cons[v]}
    /\ \E n \in 0..maxSeed :
          /\ reports \in [1..n -> SeedReports(cons, vins)]
          /\ purchases = SeedPurchases(reports, n)
    /\ pc = [q \in Requests |-> "idle"]
    /\ loc = [q \in Requests |-> IdleLoc]
    /\ resp = NoResponse
    /\ audit = <<>>
    /\ searches = <<>>
    /\ crowd = <<>>

----------------------------------------------------------------------------
(* The report pipeline: report generation and concurrent purchases. *)

(* The pipeline is exercised on one vehicle; which vehicle a report is about
   plays no part in purchase_report. *)
PipelineVins == {VinUntracked}

Init == InitStore([v \in Vins |-> v = VinTracked], PipelineVins, Min(MaxSeedReports, MaxReports))

Next ==
    \/ \E u \in Requesters, vin \in PipelineVins \cup {VinUnknown}, m \in Methods, tel \in BOOLEAN :
          generate_report(u, vin, m, tel)
    \/ \E q \in Requests, u \in Requesters, rid \in 1..MaxReports, m \in Methods :
          purchase_report_fetch(q, u, rid, m)
    \/ \E q \in Requests : purchase_report_create(q)
    \/ \E q \in Requests : purchase_report_save(q)

Spec == Init /\ [][Next]_vars

(* The telemetry / consent gate: registration, the admin tracking actions
   and the two telemetry handlers. *)

InitTelemetry == \E cons \in [Vins -> BOOLEAN] : InitStore(cons, Vins, 0)

NextTelemetry ==
    \/ \E name \in Usernames, role \in RoleInputs, m \in Methods : register_view(name, role, m)
    \/ \E qs \in (SUBSET Vins) \ {{}} : enable_tracking(qs)
    \/ \E qs \in (SUBSET Vins) \ {{}} : disable_tracking(qs)
    \/ \E u \in Requesters, vin \in VinInputs : vehicle_tracking(u, vin)
    \/ \E u \in Requesters, vin \in VinInputs : api_telemetry_data(u, vin)

SpecTelemetry == InitTelemetry /\ [][NextTelemetry]_vars

(* The detail pages: report generation, the report and vehicle detail
   pages, the telemetry handlers and the audit log. *)

InitDetail == InitStore([v \in Vins |-> v = VinTracked], Vins, 0)

NextDetail ==
    \/ \E u \in Requesters, vin \in Vins, tel \in BOOLEAN : generate_report(u, vin, "POST", tel)
    \/ \E u \in Requesters, rid \in 1..MaxReports : report_detail(u, rid)
    \/ \E u \in Requesters, vin \in VinInputs, ok \in BOOLEAN : vehicle_detail(u, vin, ok)
    \/ \E u \in Requesters, vin \in Vins : vehicle_tracking(u, vin)
    \/ \E u \in Requesters, vin \in Vins : api_telemetry_data(u, vin)

SpecDetail == InitDetail /\ [][NextDetail]_vars

(* Consent changes against report creation: generate_report and the admin
   tracking actions on the seeded store. *)

InitConsent ==
    \E cons \in [Vins -> BOOLEAN] : InitStore(cons, Vins, Min(MaxSeedReports, MaxReports))

NextConsent ==
    \/ \E u \in Requesters, vin \in Vins, m \in Methods, tel \in BOOLEAN :
          generate_report(u, vin, m, tel)
    \/ \E qs \in (SUBSET Vins) \ {{}} : enable_tracking(qs)
    \/ \E qs \in (SUBSET Vins) \ {{}} : disable_tracking(qs)

SpecConsent == InitConsent /\ [][NextConsent]_vars

(* Search: the search handler with its log and the VIN lookup endpoint. *)

InitSearch == InitStore([v \in Vins |-> v = VinTracked], Vins, 0)

NextSearch ==
    \/ \E u \in Requesters, q \in SearchQueries, t \in SearchTypes : search_results(u, q, t)
    \/ \E u \in Requesters, vin \in LookupInputs : api_vehicle_lookup(u, vin)

SpecSearch == InitSearch /\ [][NextSearch]_vars

(* The log tables: the two handlers that write them and the admin site
   operations that reach them. *)

InitLogs == InitStore([v \in Vins |-> v = VinTracked], Vins, 0)

NextLogs ==
    \/ \E u \in Requesters : vehicle_detail(u, VinTracked, TRUE)
    \/ \E u \in Requesters : search_results(u, <<"5", "1">>, "vin")
    \/ \E u \in DOMAIN users : UserAdmin_delete(u)
    \/ \E i \in 1..MaxAudit : AuditLogAdmin_delete(i)
    \/ \E i \in 1..MaxSearches : SearchQueryAdmin_delete(i)

SpecLogs == InitLogs /\ [][NextLogs]_vars

(* Registration: two registration requests in flight. *)

RegisterNames == {"guest1", "newuser", "newuser2"}

RegisterRoles == {"guest", "system_admin", UnknownRole}

InitRegister == InitStore([v \in Vins |-> v = VinTracked], Vins, 0)

NextRegister ==
    \/ \E q \in Requests, name \in RegisterNames, role \in RegisterRoles, m \in Methods :
          register_view_check(q, name, role, m)
    \/ \E q \in Requests : register_view_create(q)

SpecRegister == InitRegister /\ [][NextRegister]_vars

(* Report access: a newly registered user (possibly an auditor), report
   generation and the report detail page. *)

AccessRoles == {"auditor", "dealer"}

InitAccess == InitStore([v \in Vins |-> v = VinTracked], {VinTracked}, Min(MaxSeedReports, MaxReports))

NextAccess ==
    \/ \E role \in AccessRoles : register_view("newuser", role, "POST")
    \/ \E u \in Requesters, tel \in BOOLEAN : generate_report(u, VinTracked, "POST", tel)
    \/ \E u \in Requesters, rid \in 1..MaxReports : report_detail(u, rid)

SpecAccess == InitAccess /\ [][NextAccess]_vars

(* Crowdsourced reports: submission, verification through the view and the
   admin site, and the admin views, with a newly registered user who may be
   an auditor. *)

CrowdRoles == {"auditor", "guest"}

InitCrowd == InitStore([v \in Vins |-> v = VinTracked], Vins, 0)

NextCrowd ==
    \/ \E role \in CrowdRoles : register_view("newuser", role, "POST")
    \/ \E u \in Requesters, vin \in {VinTracked, VinUnknown}, m \in Methods, ok \in BOOLEAN :
          submit_report(u, vin, m, ok)
    \/ \E u \in Requesters, rid \in 1..MaxCrowd, m \in Methods, a \in VerifyActions :
          verify_report(u, rid, m, a)
    \/ \E qs \in (SUBSET CrowdIds) \ {{}} : verify_reports(qs)
    \/ \E qs \in (SUBSET CrowdIds) \ {{}} : reject_reports(qs)
    \/ \E u \in Requesters : admin_dashboard(u)
    \/ \E u \in Requesters : audit_logs(u)
    \/ \E u \in Requesters : stolen_vehicles(u)

SpecCrowd == InitCrowd /\ [][NextCrowd]_vars

(* Row-creating handlers: report generation, one purchase request at a time
   and crowdsourced submission, for logged-in and anonymous callers. *)

InitWrites == InitStore([v \in Vins |-> v = VinTracked], {VinTracked}, 0)

NextWrites ==
    \/ \E u \in Requesters, m \in Methods : generate_report(u, VinTracked, m, FALSE)
    \/ \E u \in Requesters, rid \in 1..MaxReports, m \in Methods :
          purchase_report_fetch("first", u, rid, m)
    \/ purchase_report_create("first")
    \/ purchase_report_save("first")
    \/ \E u \in Requesters, m \in Methods : submit_report(u, VinTracked, m, TRUE)

SpecWrites == InitWrites /\ [][NextWrites]_vars

----------------------------------------------------------------------------
(* Properties *)

Quiescent == \A q \in Requests : pc[q] = "idle"

HasCompletedPurchase(rid) ==
    \E i \in PurchasesOf(rid) : purchases[i].payment_status = "completed"

TelemetryOps == {"vehicle_tracking", "api_telemetry_data"}

Denials == {"login_redirect", "tracking_not_enabled_redirect", "Tracking not enabled"}

(* C1: whenever no purchase request is in flight (every generate_report and
   purchase_report request issued so far has completed), a report has
   is_paid = true if and only if a ReportPurchase with payment_status =
   completed exists for it. *)
C1_PaidIffCompletedPurchase ==
    Quiescent =>
        \A rid \in ReportIds : reports[rid].is_paid <=> HasCompletedPurchase(rid)

C1_Witness ==
    /\ Quiescent
    /\ resp.op = "purchase_report" /\ resp.outcome = "purchased"
    /\ \E rid \in ReportIds : reports[rid].is_paid /\ HasCompletedPurchase(rid)

(* C2: a purchase_report POST that reaches the insert for a report that is
   already paid and has a ReportPurchase ends in a conflict that the handler
   reports to the caller, adds no ReportPurchase row and leaves the reports
   and the purchases unchanged. *)
C2_SecondPurchaseConflict ==
    [][\A q \in Requests :
          (/\ pc[q] = "create" /\ pc'[q] # "create"
           /\ reports[loc[q].rid].is_paid /\ PurchasesOf(loc[q].rid) # {})
          => (/\ resp'.op = "purchase_report" /\ resp'.outcome = "conflict"
              /\ purchases' = purchases /\ reports' = reports)]_vars

(* C3: in every reachable state, also while two purchase_report POSTs for
   the same report interleave, a report has at most one ReportPurchase row
   and every ReportPurchase row refers to exactly one existing report. *)
C3_AtMostOnePurchase ==
    /\ \A rid \in ReportIds : Cardinality(PurchasesOf(rid)) <= 1
    /\ \A i \in 1..Len(purchases) : purchases[i].report \in ReportIds

C3_Witness ==
    \E q1 \in Requests, q2 \in Requests :
        /\ q1 # q2
        /\ pc[q1] = "save" /\ pc[q2] = "create"
        /\ loc[q1].rid = loc[q2].rid
        /\ Cardinality(PurchasesOf(loc[q1].rid)) = 1

(* C4: no state shows a completed ReportPurchase whose report still has
   is_paid = false: the purchase row and the paid flag appear together. *)
C4_PurchaseAtomic ==
    \A i \in 1..Len(purchases) :
        purchases[i].payment_status = "completed" => reports[purchases[i].report].is_paid

(* C5: a telemetry request (vehicle_tracking or api_telemetry_data) for an
   existing vehicle whose consenting_for_tracking is false ends in a denial
   for every requester: no telemetry row is returned and the response is not
   a successful (200) empty list. *)
C5_NoConsentDenied ==
    (resp.op \in TelemetryOps /\ resp.vin \in Vins /\ ~resp.consent)
        => (resp.outcome \in Denials /\ resp.count = 0 /\ resp.code # 200)

C5_Witness ==
    /\ resp.op \in TelemetryOps /\ resp.vin \in Vins /\ ~resp.consent
    /\ resp.role # "anonymous"
    /\ traces[resp.vin] > 0
    /\ resp.outcome \in Denials

(* C6 as stated: api_telemetry_data for an existing vehicle without consent
   returns 403 {"error": "Tracking not enabled"} for every requester. *)
C6_Api403EveryRequester ==
    (resp.op = "api_telemetry_data" /\ resp.vin \in Vins /\ ~resp.consent)
        => (resp.code = 403 /\ resp.outcome = "Tracking not enabled")

(* C6 as amended: api_telemetry_data for an existing vehicle without consent
   returns 403 {"error": "Tracking not enabled"} for every authenticated
   requester; an anonymous requester is redirected to the login page. *)
C6_Api403Authenticated ==
    (resp.op = "api_telemetry_data" /\ resp.vin \in Vins /\ ~resp.consent)
        => IF resp.role # "anonymous"
           THEN resp.code = 403 /\ resp.outcome = "Tracking not enabled"
           ELSE resp.code = 302 /\ resp.outcome = "login_redirect"

C6_Witness ==
    /\ resp.op = "api_telemetry_data" /\ resp.vin = VinUntracked /\ ~resp.consent
    /\ resp.role # "anonymous"
    /\ resp.code = 403

(* C7: for every user of the store, the capability set the gate gives for the
   user's role is the ROLE_PERMISSIONS entry when the role is one of the six
   roles, and the empty set for any other role value. *)
C7_GateIsTableOrEmpty ==
    /\ \A r \in Roles : RolePermissions(r) = ROLE_PERMISSIONS[r]
    /\ \A u \in DOMAIN users :
          IF users[u] \in Roles
          THEN RolePermissions(users[u]) = ROLE_PERMISSIONS[users[u]]
          ELSE RolePermissions(users[u]) = {}

C7_Witness ==
    /\ \E u \in DOMAIN users : users[u] \notin Roles
    /\ \E u \in DOMAIN users : users[u] = "guest"

(* C8: every ReportPurchase row belongs to a user whose role's capability
   set contains purchase_report (or full_access), and a purchase_report POST
   by a user of another role is rejected. *)
C8_PurchaseNeedsCapability ==
    /\ \A i \in 1..Len(purchases) :
          HasCapability(RoleOf(purchases[i].user), "purchase_report")
    /\ (resp.op = "purchase_report" /\ resp.outcome = "purchased")
          => HasCapability(resp.role, "purchase_report")

(* C9: telemetry is surfaced by vehicle_tracking and api_telemetry_data only
   to a requester whose role's capability set contains view_telemetry (or
   full_access). *)
C9_TelemetryNeedsCapability ==
    (resp.op \in TelemetryOps /\ resp.outcome = "telemetry")
        => HasCapability(resp.role, "view_telemetry")

StatusStep(old, new) ==
    \/ new = old
    \/ old = "pending" /\ new = "processing"
    \/ old = "processing" /\ new \in {"completed", "failed"}

(* C10: the status of a VehicleReport changes only along pending ->
   processing -> completed or failed: never from pending to completed in one
   step, and never again once it is completed or failed. *)
C10_StatusStateMachine ==
    [][\A rid \in ReportIds : StatusStep(reports[rid].status, reports'[rid].status)]_vars

TerminalStatuses == {"completed", "failed"}

(* C11: report generation runs inside the generate_report request and sets
   the terminal status synchronously: once the handler has answered that the
   report was started, the report it created (the newest row) is no longer
   in processing but has reached completed or failed. *)
C11_GenerationReachesTerminal ==
    (resp.op = "generate_report" /\ resp.outcome = "report_started")
        => (reports # <<>> /\ reports[Len(reports)].status \in TerminalStatuses)

(* C12: every report with status = completed has its JSON snapshot populated
   and both generation_started_at and generation_completed_at set. *)
C12_CompletedHasSnapshot ==
    \A rid \in ReportIds :
        reports[rid].status = "completed"
            => (/\ reports[rid].json_data
                /\ reports[rid].generation_started_at
                /\ reports[rid].generation_completed_at)

(* C13: report_detail puts the report's full data (the JSON snapshot and
   history content) in the response only when the report's is_paid is true;
   for a report with is_paid = false it is withheld. *)
C13_FullDataOnlyWhenPaid ==
    (resp.op = "report_detail" /\ resp.full_data) => resp.is_paid

(* C14: vehicle_detail returns OwnershipRecord rows only for a vehicle whose
   consenting_for_tracking is true; for a non-consenting vehicle the response
   holds no ownership row. *)
C14_OwnershipNeedsConsent ==
    (resp.op = "vehicle_detail" /\ resp.ownership > 0) => resp.consent

(* C15 as stated: in every state, every report with include_telemetry =
   true belongs to a vehicle whose consenting_for_tracking is true, also
   after the vehicle's consent was withdrawn. *)
C15_TelemetryFlagImpliesConsent ==
    \A rid \in ReportIds :
        reports[rid].include_telemetry => consent[reports[rid].vehicle]

(* C15 as amended: a report is created with include_telemetry = true only
   for a vehicle whose consenting_for_tracking is true at the time of
   creation (seeded reports included), and a change of a vehicle's consent
   leaves every stored report, its include_telemetry flag included, as it
   was. *)
C15_TelemetryFlagSetOnlyWithConsent ==
    /\ \A rid \in ReportIds :
          reports[rid].include_telemetry => consent[reports[rid].vehicle]
    /\ [][/\ \A rid \in 1..Len(reports') :
                rid > Len(reports) =>
                    (reports'[rid].include_telemetry => consent[reports'[rid].vehicle])
          /\ consent' # consent => reports' = reports]_vars

C15_Witness ==
    /\ resp.op = "generate_report" /\ resp.outcome = "report_started" /\ resp.consent
    /\ \E rid \in ReportIds :
          /\ reports[rid].include_telemetry
          /\ reports[rid].vehicle = resp.vin
          /\ ~consent[reports[rid].vehicle]

SensitivePages == {"vehicle_page", "telemetry", "report_page"}

Surfacing(r) == r.code = 200 /\ r.outcome \in SensitivePages

(* C16: every request that surfaces a sensitive resource (the vehicle detail
   page with its ownership rows, telemetry through vehicle_tracking or
   api_telemetry_data, the report detail page) appends one AuditLog row in
   the same request, naming the vehicle concerned and the network context. *)
C16_SensitiveAccessAudited ==
    [][(resp' # resp /\ Surfacing(resp'))
          => (/\ Len(audit') = Len(audit) + 1
              /\ audit'[Len(audit')].vehicle = resp'.vin
              /\ audit'[Len(audit')].ip_address = "REMOTE_ADDR")]_vars

(* C17: a failure of the AuditLog write does not reach the caller: every
   vehicle_detail request for an existing vehicle, also one whose audit
   insert failed, is answered with the vehicle page and its data. *)
C17_AuditFailureNotPropagated ==
    (resp.op = "vehicle_detail" /\ resp.vin \in Vins)
        => (resp.code = 200 /\ resp.outcome = "vehicle_page"
            /\ resp.ownership = ownership_records(resp.vin))

AppendOnly(old, new) ==
    Len(new) >= Len(old) /\ SubSeq(new, 1, Len(old)) = old

(* C18: AuditLog and SearchQuery rows are append-only: no step (a view
   handler, an admin operation, the deletion of a referenced user) changes a
   field of an existing row or removes a row; rows are only added. *)
C18_LogsAppendOnly ==
    [][AppendOnly(audit, audit') /\ AppendOnly(searches, searches')]_vars

SearchRequest(r) == r.op = "search_results"

RowRecordsRequest(row, r) ==
    /\ row.query_text = r.query
    /\ row.search_type = r.search_type
    /\ IF r.role = "anonymous" THEN row.user = NoUser ELSE RoleOf(row.user) = r.role
    /\ row.results_count = r.count

OneRowAppended(r) ==
    /\ Len(searches') = Len(searches) + 1
    /\ SubSeq(searches', 1, Len(searches)) = searches
    /\ RowRecordsRequest(searches'[Len(searches')], r)

(* C19 as stated: every search_results request writes exactly one
   SearchQuery row, recording the query text, the search type, the user (or
   none) and results_count = the number of vehicles returned to the caller. *)
C19_EverySearchLogged ==
    [][(SearchRequest(resp') /\ resp' # resp) => OneRowAppended(resp')]_vars

(* C19 as amended: a search_results request with a non-empty query writes
   exactly one SearchQuery row, recording the query text, the search type as
   given, the user (or none) and results_count = the number of matches
   reported to the caller; a request with an empty query writes no row. *)
C19_NonEmptySearchLogged ==
    [][(SearchRequest(resp') /\ (resp' # resp \/ searches' # searches))
          => IF resp'.query # <<>>
             THEN OneRowAppended(resp')
             ELSE searches' = searches]_vars

C19_Witness ==
    /\ SearchRequest(resp) /\ resp.query # <<>> /\ resp.count = 2
    /\ searches # <<>>
    /\ searches[Len(searches)].results_count = 2
    /\ searches[Len(searches)].query_text = resp.query

(* C20: api_vehicle_lookup rejects a VIN that does not match the
   17-character uppercase pattern before any lookup (it is never answered
   from the store query, neither with a vehicle nor with "Vehicle not
   found"), and a well-formed VIN finds a vehicle exactly when it equals a
   stored VIN character for character, case included. *)
C20_LookupValidatesThenMatchesExactly ==
    resp.op = "api_vehicle_lookup"
        => IF ~VIN_PATTERN(Text(resp.vin))
           THEN resp.code \notin {200, 404} /\ resp.outcome # "Vehicle not found"
           ELSE (resp.code = 200) <=> (resp.vin \in Vins)

Store == <<users, consent, traces, reports, purchases, audit, searches, crowd>>

(* C21: api_vehicle_lookup for a VIN that matches no vehicle answers 404
   with the body {"error": "Vehicle not found"}; for a stored VIN it answers
   200 with that vehicle's vin, make, model, year, title_status, mileage and
   is_stolen; in both cases the request leaves the store as it was. *)
C21_LookupAnswers ==
    /\ [](resp.op = "api_vehicle_lookup"
            => IF resp.vin \in Vins
               THEN resp.code = 200 /\ resp.fields = VehicleJsonKeys
               ELSE /\ resp.code = 404 /\ resp.outcome = "Vehicle not found"
                    /\ resp.fields = {"error"})
    /\ [][(resp'.op = "api_vehicle_lookup" /\ resp' # resp) => Store' = Store]_vars

C21_Witness ==
    /\ resp.op = "api_vehicle_lookup" /\ resp.vin = VinUnknown
    /\ resp.code = 404 /\ resp.fields = {"error"}
    /\ searches # <<>>

(* C22: in every state each user's role is one of the six roles guest,
   verified_buyer, dealer, fleet_admin, auditor, system_admin; register_view
   creates no user with another role value. *)
C22_RolesAreTheSix ==
    \A u \in DOMAIN users : users[u] \in Roles

(* C23: a register_view request whose username exists when the user is to be
   created (also because a concurrent registration has just created it)
   creates no user, leaves the existing user as it was and is answered with
   the user-facing "username exists" error, never with an unhandled fault. *)
C23_DuplicateUsernameHandled ==
    [][\A q \in Requests :
          (pc[q] = "create_user" /\ pc'[q] = "idle" /\ loc[q].user \in DOMAIN users)
              => (/\ users' = users
                  /\ resp'.op = "register_view"
                  /\ resp'.outcome = "username_exists"
                  /\ resp'.code # 500)]_vars

AdminRoles == {"system_admin", "auditor"}

(* C24: report_detail returns a report only to the user who requested it or
   to a user with role system_admin or auditor; any other authenticated user
   asking for an existing report is redirected to the report list with an
   error message and gets no report data; the request leaves the store as it
   was. *)
C24_ReportOnlyToOwnerOrAdmin ==
    [][(resp'.op = "report_detail" /\ resp' # resp)
          => /\ Store' = Store
             /\ resp'.full_data
                  => (/\ is_authenticated(resp'.user)
                      /\ resp'.rid \in ReportIds
                      /\ \/ reports[resp'.rid].requested_by = resp'.user
                         \/ resp'.role \in AdminRoles)
             /\ (/\ is_authenticated(resp'.user)
                 /\ resp'.rid \in ReportIds
                 /\ reports[resp'.rid].requested_by # resp'.user
                 /\ resp'.role \notin AdminRoles)
                  => (/\ resp'.code = 302 /\ resp'.outcome = "no_access_redirect"
                      /\ ~resp'.full_data)]_vars

C24_Witness ==
    /\ resp.op = "report_detail" /\ resp.full_data /\ resp.role = "auditor"
    /\ resp.rid \in ReportIds
    /\ reports[resp.rid].requested_by # resp.user

(* C25: a POST to generate_report by an authenticated user for an existing
   vehicle creates exactly one VehicleReport for that vehicle, with status =
   processing (never pending), is_paid = false, no ReportPurchase and
   requested_by = the requesting user; any other generate_report request (a
   GET in particular) creates nothing. *)
C25_PostCreatesOneProcessingReport ==
    [][(resp'.op = "generate_report" /\ (resp' # resp \/ reports' # reports))
          => IF resp'.method = "POST" /\ is_authenticated(resp'.user) /\ resp'.vin \in Vins
             THEN /\ Len(reports') = Len(reports) + 1
                  /\ SubSeq(reports', 1, Len(reports)) = reports
                  /\ reports'[Len(reports')].vehicle = resp'.vin
                  /\ reports'[Len(reports')].status = "processing"
                  /\ ~reports'[Len(reports')].is_paid
                  /\ reports'[Len(reports')].requested_by = resp'.user
                  /\ \A i \in 1..Len(purchases') : purchases'[i].report # Len(reports')
             ELSE reports' = reports]_vars

C25_Witness ==
    /\ resp.op = "generate_report" /\ resp.method = "POST" /\ resp.outcome = "report_started"
    /\ Len(reports) = MaxReports
    /\ reports[Len(reports)].status = "processing"
    /\ reports[Len(reports)].requested_by = resp.user
    /\ ~reports[Len(reports)].include_telemetry

(* C26: purchase_report creates a ReportPurchase, and sets the report paid
   and completed, only for the user who requested the report: every
   ReportPurchase row belongs to the requested_by user of its report, and a
   purchase_report POST by another authenticated user is not answered as
   purchased. *)
C26_PurchaserIsRequester ==
    /\ \A i \in 1..Len(purchases) :
          purchases[i].user = reports[purchases[i].report].requested_by
    /\ (resp.op = "purchase_report" /\ resp.outcome = "purchased")
          => \E rid \in ReportIds :
                reports[rid].is_paid /\ reports[rid].requested_by = resp.user

(* C27: for every CrowdsourcedReport, after any sequence of submit_report
   and verify_report requests and admin verify / reject actions, verified_by
   and verified_at are set if and only if status = verified. *)
C27_VerifiedFieldsIffVerified ==
    \A i \in CrowdIds :
        (crowd[i].verified_by # NoUser /\ crowd[i].verified_at)
            <=> crowd[i].status = "verified"

AdminOps == {"admin_dashboard", "audit_logs", "stolen_vehicles", "verify_report"}

(* C29: admin_dashboard, audit_logs, stolen_vehicles and verify_report
   proceed only for an authenticated user whose role is system_admin or
   auditor; every other requester, anonymous ones included, is sent to the
   login page, gets no data, and the request changes no state (no
   CrowdsourcedReport is changed). *)
C29_AdminViewsGated ==
    [][(resp'.op \in AdminOps /\ resp' # resp
        /\ ~(is_authenticated(resp'.user) /\ resp'.role \in AdminRoles))
          => (/\ Store' = Store
              /\ resp'.code = 302 /\ resp'.outcome = "login_redirect"
              /\ resp'.count = 0)]_vars

C29_Witness ==
    /\ resp.op = "verify_report" /\ resp.role = "auditor" /\ resp.method = "POST"
    /\ resp.rid \in CrowdIds
    /\ crowd[resp.rid].status = "verified"
    /\ crowd[resp.rid].verified_by = resp.user

WriteOps == {"generate_report", "purchase_report", "submit_report"}

NewRows(old, new) == {new[i] : i \in (Len(old) + 1)..Len(new)}

(* C30: no request of an unauthenticated caller creates a VehicleReport, a
   ReportPurchase or a CrowdsourcedReport: generate_report, purchase_report
   and submit_report answer it with the login redirect and leave the store
   and the requests in flight as they were, and every row these handlers
   create names a requesting user. *)
C30_AnonymousCreatesNothing ==
    [][/\ (resp'.op \in WriteOps /\ resp' # resp /\ ~is_authenticated(resp'.user))
            => (Store' = Store /\ pc' = pc /\ resp'.outcome = "login_redirect")
       /\ \A r \in NewRows(reports, reports') : r.requested_by \notin {NoUser, Anonymous}
       /\ \A r \in NewRows(purchases, purchases') : r.user \notin {NoUser, Anonymous}
       /\ \A r \in NewRows(crowd, crowd') : r.submitted_by \notin {NoUser, Anonymous}]_vars

C30_Witness ==
    /\ resp.op = "submit_report" /\ resp.method = "POST" /\ ~is_authenticated(resp.user)
    /\ resp.outcome = "login_redirect"
    /\ reports # <<>> /\ purchases # <<>> /\ crowd # <<>>

(* C28: the consent check reads the vehicle's flag at the time of the
   request: a vehicle_tracking or api_telemetry_data request for a vehicle
   whose consenting_for_tracking is now false is denied and returns no row,
   one for a vehicle whose flag is now true is served to a logged-in caller,
   and changing the flag leaves the stored TelemetryTrace rows in place. *)
C28_ConsentReadAtRequestTime ==
    [][/\ (resp'.op \in TelemetryOps /\ resp' # resp /\ resp'.vin \in Vins)
            => IF ~consent[resp'.vin]
               THEN resp'.outcome \in Denials /\ resp'.count = 0
               ELSE is_authenticated(resp'.user)
                       => (/\ resp'.outcome = "telemetry"
                           /\ resp'.count = Min(traces[resp'.vin], TRACE_PAGE))
       /\ consent' # consent => traces' = traces]_vars

C28_Witness ==
    /\ resp.op \in TelemetryOps /\ is_authenticated(resp.user)
    /\ resp.outcome \in {"tracking_not_enabled_redirect", "Tracking not enabled"}
    /\ resp.vin \in Vins
    /\ ~consent[resp.vin]
    /\ traces[resp.vin] > 0

====
